---- MODULE Spec2Model ----
(***************************************************************************)
(* Model of the Japanese text-to-speech helper of Long-noop/NihonGo.       *)
(*                                                                         *)
(* The repository holds two variants of the same script:                   *)
(*   src/data/tts.js       (50 ms settling delay, speakJapanese calls      *)
(*                          stopSpeech, flag set at submission)            *)
(*   src/unnamed/part_000  (500 ms settling delay, speakJapanese cancels   *)
(*                          on synth.speaking || synth.pending)            *)
(* A page loads one of them; the variable `variant` says which.            *)
(*                                                                         *)
(* The browser's speechSynthesis object is the environment: a queue of     *)
(* utterances, of which the head may have begun being spoken.              *)
(***************************************************************************)
EXTENDS Integers, Sequences, FiniteSets, TLC

VARIABLES
    variant,          \* which of the two scripts is loaded
    eagerSpeaking,    \* browser flavour: synth.speaking true for a queued utterance
    currentUtterance, \* let currentUtterance (0 is null, else an utterance id)
    isSpeaking,       \* let isSpeaking
    timers,           \* setTimeout callbacks armed and not yet fired, in firing order
    utt,              \* the SpeechSynthesisUtterance objects built so far
    queue,            \* speechSynthesis: utterances handed to speak(), unfinished
    started,          \* speechSynthesis: the head of the queue is being spoken
    inflight,         \* speechSynthesis: error notifications of cancelled utterances
    voices,           \* speechSynthesis.getVoices() as of now
    hook,             \* number of handlers synth.onvoiceschanged holds
    submitted,        \* history: ids handed to synth.speak, in order
    lastCall,         \* history: the latest speakJapanese call that armed a timer
    last,             \* history: the operation that led to this state
    input,            \* text functions: the argument
    output,           \* text functions: the result
    pc                \* text functions: position

vars == <<variant, eagerSpeaking, currentUtterance, isSpeaking, timers, utt,
          queue, started, inflight, voices, hook, submitted, lastCall, last,
          input, output, pc>>

managerVars == <<variant, eagerSpeaking, currentUtterance, isSpeaking, timers,
                 utt, queue, started, inflight, voices, hook, submitted,
                 lastCall, last>>

textVars == <<input, output, pc>>

-----------------------------------------------------------------------------
(* Bounds *)

MaxLen == 4      \* longest input string of the text functions
MaxCalls == 2    \* speakJapanese calls with speakable text in one run
MaxSegs == 4     \* pieces an input of extractJapaneseOnly is built from

-----------------------------------------------------------------------------
(* JavaScript values *)

JsNull == [tag |-> "null"]
JsStr(s) == [tag |-> "string", chars |-> s]

\* !text : null, undefined and "" are falsy
Falsy(text) == text.tag = "null" \/ text.chars = <<>>

Null == 0

-----------------------------------------------------------------------------
(* Characters *)

LParen == "("
RParen == ")"
FullLParen == "FULLWIDTH("
FullRParen == "FULLWIDTH)"
Space == " "
Newline == "\n"
Kana == "a"
Kanji == "b"

Alphabet == {Kana, LParen, RParen, FullLParen, FullRParen, Space, Newline}

\* [（(]
IsOpen(c) == c \in {LParen, FullLParen}
\* [）)]
IsClose(c) == c \in {RParen, FullRParen}
\* . (no s flag: every character but a line terminator)
IsDot(c) == c # Newline
\* what String.prototype.trim strips
IsWhite(c) == c \in {Space, Newline}

Min(S) == CHOOSE m \in S : \A n \in S : m <= n
Max(S) == CHOOSE m \in S : \A n \in S : m >= n

-----------------------------------------------------------------------------
(* cleanJapaneseText *)

\* The end of the match of /[（(].*?[）)]/ that starts at i, or 0.
\* .*? is lazy: the match ends at the first closer after i, and it exists
\* only when every character in between is matched by the dot.
MatchEnd(s, i) ==
    IF ~IsOpen(s[i]) THEN 0
    ELSE LET closers == {j \in (i+1)..Len(s) :
                            /\ IsClose(s[j])
                            /\ \A k \in (i+1)..(j-1) : IsDot(s[k])}
         IN  IF closers = {} THEN 0 ELSE Min(closers)

\* the same replace without the g flag: only the leftmost match goes
ReplaceFirstGroup(s) ==
    LET starts == {i \in 1..Len(s) : MatchEnd(s, i) # 0}
    IN  IF starts = {} THEN s
        ELSE LET i == Min(starts)
                 e == MatchEnd(s, i)
             IN  SubSeq(s, 1, i-1) \o SubSeq(s, e+1, Len(s))

\* text.replace(/[（(].*?[）)]/g, ""): leftmost match, removed, then on
\* from the character after the match.
RECURSIVE ReplaceGroups(_)
ReplaceGroups(s) ==
    LET starts == {i \in 1..Len(s) : MatchEnd(s, i) # 0}
    IN  IF starts = {} THEN s
        ELSE LET i == Min(starts)
                 e == MatchEnd(s, i)
             IN  SubSeq(s, 1, i-1) \o ReplaceGroups(SubSeq(s, e+1, Len(s)))

\* String.prototype.trim
Trim(s) ==
    LET keep == {i \in 1..Len(s) : ~IsWhite(s[i])}
    IN  IF keep = {} THEN <<>> ELSE SubSeq(s, Min(keep), Max(keep))

cleanJapaneseText(text) ==
    IF Falsy(text) THEN JsStr(<<>>)
    ELSE JsStr(Trim(ReplaceGroups(text.chars)))

-----------------------------------------------------------------------------
(* extractJapaneseOnly *)

Lt == "<"
Gt == ">"
Slash == "/"
LetterB == "B"      \* b or B (the i flag)
LetterR == "R"      \* r or R
LetterP == "P"      \* any other tag name

\* The end of the match of /<br\s*\/?>/i that starts at i, or 0.
BrEnd(s, i) ==
    IF ~(i + 3 <= Len(s) /\ s[i] = Lt /\ s[i+1] = LetterB /\ s[i+2] = LetterR)
    THEN 0
    ELSE LET ends == {j \in (i+3)..Len(s) :
                         /\ s[j] = Gt
                         /\ \E k \in (i+3)..j :
                               /\ \A w \in (i+3)..(k-1) : IsWhite(s[w])
                               /\ \/ k = j
                                  \/ (k = j - 1 /\ s[k] = Slash)}
         IN  IF ends = {} THEN 0 ELSE Min(ends)

\* text.replace(/<br\s*\/?>/gi, "\n")
RECURSIVE BrToNewline(_)
BrToNewline(s) ==
    LET starts == {i \in 1..Len(s) : BrEnd(s, i) # 0}
    IN  IF starts = {} THEN s
        ELSE LET i == Min(starts)
                 e == BrEnd(s, i)
             IN  SubSeq(s, 1, i-1) \o <<Newline>>
                    \o BrToNewline(SubSeq(s, e+1, Len(s)))

\* The end of the match of /<[^>]*>/ that starts at i, or 0.
TagEnd(s, i) ==
    IF s[i] # Lt THEN 0
    ELSE LET ends == {j \in (i+1)..Len(s) : s[j] = Gt}
         IN  IF ends = {} THEN 0 ELSE Min(ends)

\* cleanText.replace(/<[^>]*>/g, "")
RECURSIVE StripTags(_)
StripTags(s) ==
    LET starts == {i \in 1..Len(s) : TagEnd(s, i) # 0}
    IN  IF starts = {} THEN s
        ELSE LET i == Min(starts)
                 e == TagEnd(s, i)
             IN  SubSeq(s, 1, i-1) \o StripTags(SubSeq(s, e+1, Len(s)))

\* cleanText.split("\n")
RECURSIVE Split(_)
Split(s) ==
    LET nls == {i \in 1..Len(s) : s[i] = Newline}
    IN  IF nls = {} THEN <<s>>
        ELSE <<SubSeq(s, 1, Min(nls) - 1)>>
                \o Split(SubSeq(s, Min(nls) + 1, Len(s)))

\* /\s*[（(].*?[）)]\s*$/ matches from p: white space, an opener, lazily
\* up to a closer that only white space separates from the end
TrailingFrom(s, p) ==
    \E q \in p..Len(s) :
        /\ \A w \in p..(q-1) : IsWhite(s[w])
        /\ IsOpen(s[q])
        /\ \E j \in (q+1)..Len(s) :
              /\ IsClose(s[j])
              /\ \A k \in (q+1)..(j-1) : IsDot(s[k])
              /\ \A w \in (j+1)..Len(s) : IsWhite(s[w])

\* japanesePart.replace(/\s*[（(].*?[）)]\s*$/g, ""): the leftmost match
\* runs to the end of the string, so nothing is left to match after it
StripTrailing(s) ==
    LET starts == {p \in 1..Len(s) : TrailingFrom(s, p)}
    IN  IF starts = {} THEN s ELSE SubSeq(s, 1, Min(starts) - 1)

\* lines[0].trim(), the trailing group removed, furigana cleaned
FromLine(line) ==
    cleanJapaneseText(JsStr(StripTrailing(Trim(line))))

extractJapaneseOnly(text) ==
    IF Falsy(text) THEN JsStr(<<>>)
    ELSE LET lines == Split(StripTags(BrToNewline(text.chars)))
         IN  IF Len(lines) > 0 THEN FromLine(lines[1])
             ELSE cleanJapaneseText(text)

-----------------------------------------------------------------------------
(* The capability: window.speechSynthesis *)

\* synth.speaking. The Web Speech API says "an utterance is being spoken";
\* Blink reports true as soon as the queue holds an utterance.
SynthSpeaking ==
    IF eagerSpeaking THEN queue # <<>> ELSE started

\* synth.pending: the queue holds an utterance that has not begun
SynthPending ==
    IF started THEN Len(queue) > 1 ELSE queue # <<>>

\* synth.cancel(): the queue is emptied; each removed utterance is owed an
\* error notification, delivered later (NotifyCancelled) or never.
CancelledBy(q, st) ==
    {[id |-> q[i], wasStarted |-> (st /\ i = 1)] : i \in 1..Len(q)}

\* Voices
JaGoogle == [lang |-> "ja-JP", name |-> <<"Google", "Nihongo">>]
JaKyoko == [lang |-> "ja-JP", name |-> <<"Kyoko">>]
EnGoogle == [lang |-> "en-US", name |-> <<"Google", "US", "English">>]

Catalogs ==
    { <<>>,
      <<EnGoogle, JaKyoko>>,
      <<EnGoogle, JaKyoko, JaGoogle>> }

\* v.name.includes("Google")
NameIncludesGoogle(v) == \E i \in 1..Len(v.name) : v.name[i] = "Google"

IsGoogleJa(v) == v.lang = "ja-JP" /\ NameIncludesGoogle(v)
IsJa(v) == v.lang = "ja-JP"

\* voices.find(pred): <<first match>> or <<>> for undefined
FindGoogleJa(vs) ==
    LET hits == {i \in 1..Len(vs) : IsGoogleJa(vs[i])}
    IN  IF hits = {} THEN <<>> ELSE <<vs[Min(hits)]>>

FindJa(vs) ==
    LET hits == {i \in 1..Len(vs) : IsJa(vs[i])}
    IN  IF hits = {} THEN <<>> ELSE <<vs[Min(hits)]>>

\* if (googleVoice) ... else if (japaneseVoice) ... : <<voice>> or <<>> unset
SelectVoiceJaFirst(vs) ==
    FindJa(vs)

SelectVoice(vs) ==
    IF FindGoogleJa(vs) # <<>> THEN FindGoogleJa(vs)
    ELSE FindJa(vs)

-----------------------------------------------------------------------------
(* Inputs of the manager's operations *)

DefaultRate == 85          \* rate = 0.85, in hundredths

\* the rate argument: <<>> when omitted, else <<rate in hundredths>>
SpeakArgs ==
    { [text |-> JsNull, rate |-> <<>>],
      [text |-> JsStr(<<>>), rate |-> <<>>],
      [text |-> JsStr(<<Space>>), rate |-> <<>>],
      [text |-> JsStr(<<FullLParen, Kana, FullRParen>>), rate |-> <<>>],
      [text |-> JsStr(<<Kana>>), rate |-> <<>>],
      [text |-> JsStr(<<Kanji, FullLParen, Kana, FullRParen>>),
       rate |-> <<300>>] }

RateOf(arg) == IF arg = <<>> THEN DefaultRate ELSE arg[1]

\* error kinds the capability reports
FailureKinds == {"synthesis-failed"}
CancelKinds(wasStarted) ==
    IF wasStarted THEN {"interrupted"} ELSE {"cancelled", "canceled"}

\* what can happen inside the delayed action
Outcomes == {"ok", "throwConstruct", "throwSpeak"}

-----------------------------------------------------------------------------
(* History record of the last operation *)

NoCall == [n |-> 0, text |-> <<>>, rapid |-> FALSE]

NoOp ==
    [op |-> "load", text |-> JsNull, id |-> Null, kind |-> "",
     outcome |-> "", voice |-> <<>>, cancel |-> FALSE, armed |-> FALSE,
     diag |-> 0, warn |-> 0, uncaught |-> FALSE,
     rate |-> <<>>, current |-> FALSE, again |-> FALSE]

Did(op) == [NoOp EXCEPT !.op = op]

-----------------------------------------------------------------------------
(* Initial state: the script has been loaded *)

Init ==
    /\ variant \in {"tts", "part000"}
    /\ eagerSpeaking \in BOOLEAN
    /\ currentUtterance = Null
    /\ isSpeaking = FALSE
    /\ timers = <<>>
    /\ utt = <<>>
    /\ queue = <<>>
    /\ started = FALSE
    /\ inflight = {}
    /\ voices \in Catalogs
    /\ hook = 0
    /\ submitted = <<>>
    /\ lastCall = NoCall
    /\ last = NoOp
    /\ input = JsNull
    /\ output = JsNull
    /\ pc = "idle"

-----------------------------------------------------------------------------
(* stopSpeech *)

\* if (synth.speaking) synth.cancel()
StopCancels == SynthSpeaking

\* the capability after stopSpeech's conditional cancel
StopEffectOnSynth ==
    IF StopCancels
    THEN /\ queue' = <<>>
         /\ started' = FALSE
         /\ inflight' = inflight \cup CancelledBy(queue, started)
    ELSE UNCHANGED <<queue, started, inflight>>

StoredAfterStopKept == currentUtterance

\* currentUtterance = null
StoredAfterStop == Null

stopSpeech ==
    /\ StopEffectOnSynth
    /\ isSpeaking' = FALSE
    /\ currentUtterance' = StoredAfterStop
    /\ last' = [Did("stopSpeech") EXCEPT !.cancel = StopCancels]
    /\ UNCHANGED <<variant, eagerSpeaking, timers, utt, voices, hook,
                   submitted, lastCall>>
    /\ UNCHANGED textVars

isTTSSpeaking == isSpeaking

-----------------------------------------------------------------------------
(* speakJapanese *)

\* tts.js:   if (!cleanText || cleanText.trim() === "") return
\* part_000: if (!cleanText) return
EmptyNever(clean) == FALSE

EmptyAfterClean(clean) ==
    IF variant = "tts"
    THEN Falsy(clean) \/ Trim(clean.chars) = <<>>
    ELSE Falsy(clean)

\* tts.js calls stopSpeech(); part_000 tests synth.speaking || synth.pending
SpeakCancels ==
    IF variant = "tts" THEN StopCancels ELSE SynthSpeaking \/ SynthPending

\* the closure handed to setTimeout
Timer(clean, rateArg) ==
    [text |-> clean.chars, rate |-> RateOf(rateArg), call |-> lastCall.n + 1]

speakJapanese(text, rateArg) ==
    LET clean == cleanJapaneseText(text) IN
    IF EmptyAfterClean(clean)
    THEN /\ last' = [Did("speakJapanese") EXCEPT
                        !.text = text, !.rate = rateArg,
                        !.warn = IF variant = "tts" THEN 1 ELSE 0]
         /\ UNCHANGED <<variant, eagerSpeaking, currentUtterance, isSpeaking,
                        timers, utt, queue, started, inflight, voices, hook,
                        submitted, lastCall>>
         /\ UNCHANGED textVars
    ELSE /\ lastCall.n < MaxCalls
         /\ IF SpeakCancels
            THEN /\ queue' = <<>>
                 /\ started' = FALSE
                 /\ inflight' = inflight \cup CancelledBy(queue, started)
            ELSE UNCHANGED <<queue, started, inflight>>
         /\ IF variant = "tts"
            THEN /\ isSpeaking' = FALSE
                 /\ currentUtterance' = StoredAfterStop
            ELSE UNCHANGED <<isSpeaking, currentUtterance>>
         /\ timers' = Append(timers, Timer(clean, rateArg))
         /\ lastCall' = [n |-> lastCall.n + 1, text |-> clean.chars,
                         rapid |-> timers # <<>>]
         /\ last' = [Did("speakJapanese") EXCEPT
                        !.text = text, !.rate = rateArg,
                        !.cancel = SpeakCancels, !.armed = TRUE]
         /\ UNCHANGED <<variant, eagerSpeaking, utt, voices, hook, submitted>>
         /\ UNCHANGED textVars

SpeakJapanese ==
    \E a \in SpeakArgs : speakJapanese(a.text, a.rate)

-----------------------------------------------------------------------------
(* The delayed action of speakJapanese *)

\* new SpeechSynthesisUtterance(cleanText) with its properties set. The
\* voice it is given is write-only for the script; the history record of
\* the delayed action keeps it (last.voice).
Utterance(t) ==
    [text |-> t.text, lang |-> "ja-JP", rate |-> t.rate,
     pitch |-> 100, volume |-> 100]

\* isSpeaking = true before synth.speak (tts.js only)
FlagAtSubmit ==
    IF variant = "tts" THEN TRUE ELSE isSpeaking

\* the flag after the delayed action threw: tts.js catches inside the
\* callback and resets it, part_000 has no handler there
FlagAfterThrow ==
    IF variant = "tts" THEN FALSE ELSE isSpeaking

TimerFire(outcome) ==
    /\ timers # <<>>
    /\ LET t == Head(timers)
           id == Len(utt) + 1
       IN  /\ timers' = Tail(timers)
           /\ IF outcome = "throwConstruct"
              THEN /\ UNCHANGED <<currentUtterance, utt, queue, submitted>>
                   /\ isSpeaking' = FlagAfterThrow
              ELSE /\ currentUtterance' = id
                   /\ utt' = Append(utt, Utterance(t))
                   /\ IF outcome = "ok"
                      THEN /\ isSpeaking' = FlagAtSubmit
                           /\ queue' = Append(queue, id)
                           /\ submitted' = Append(submitted, id)
                      ELSE /\ isSpeaking' = FlagAfterThrow
                           /\ UNCHANGED <<queue, submitted>>
           /\ last' = [Did("timer") EXCEPT
                          !.id = IF outcome = "throwConstruct" THEN Null ELSE id,
                          !.outcome = outcome,
                          !.voice = IF outcome = "throwConstruct" THEN <<>>
                                    ELSE SelectVoice(voices),
                          !.diag = IF outcome # "ok" /\ variant = "tts"
                                   THEN 1 ELSE 0,
                          !.uncaught = (outcome # "ok" /\ variant # "tts")]
    /\ UNCHANGED <<variant, eagerSpeaking, started, inflight, voices, hook,
                   lastCall>>
    /\ UNCHANGED textVars

TimerFires == \E outcome \in Outcomes : TimerFire(outcome)

-----------------------------------------------------------------------------
(* Notifications of the capability and the handlers they run *)

\* onstart
NotifyStart ==
    /\ queue # <<>>
    /\ ~started
    /\ started' = TRUE
    /\ isSpeaking' = TRUE
    /\ last' = [Did("start") EXCEPT !.id = Head(queue)]
    /\ UNCHANGED <<variant, eagerSpeaking, currentUtterance, timers, utt,
                   queue, inflight, voices, hook, submitted, lastCall>>
    /\ UNCHANGED textVars

\* onend
NotifyEnd ==
    /\ queue # <<>>
    /\ started
    /\ queue' = Tail(queue)
    /\ started' = FALSE
    /\ isSpeaking' = FALSE
    /\ currentUtterance' = Null
    /\ last' = [Did("end") EXCEPT
                   !.id = Head(queue),
                   !.current = (Head(queue) = currentUtterance)]
    /\ UNCHANGED <<variant, eagerSpeaking, timers, utt, inflight, voices,
                   hook, submitted, lastCall>>
    /\ UNCHANGED textVars

\* if (event.error !== "interrupted" && event.error !== "cancelled") in
\* tts.js, if (e.error !== "interrupted") in part_000
LogsError(kind) ==
    IF variant = "tts"
    THEN kind # "interrupted" /\ kind # "cancelled"
    ELSE kind # "interrupted"

\* an onerror that only logs
onerrorLogOnly(id, kind) ==
    /\ UNCHANGED <<isSpeaking, currentUtterance>>
    /\ last' = [Did("error") EXCEPT
                   !.id = id, !.kind = kind,
                   !.diag = IF LogsError(kind) THEN 1 ELSE 0]

\* onerror
onerror(id, kind) ==
    /\ isSpeaking' = FALSE
    /\ currentUtterance' = Null
    /\ last' = [Did("error") EXCEPT
                   !.id = id, !.kind = kind,
                   !.diag = IF LogsError(kind) THEN 1 ELSE 0]

\* the capability fails the utterance at the head of its queue
NotifyError ==
    /\ queue # <<>>
    /\ \E kind \in FailureKinds : onerror(Head(queue), kind)
    /\ queue' = Tail(queue)
    /\ started' = FALSE
    /\ UNCHANGED <<variant, eagerSpeaking, timers, utt, inflight, voices,
                   hook, submitted, lastCall>>
    /\ UNCHANGED textVars

\* the error notification of an utterance removed by synth.cancel()
NotifyCancelled ==
    /\ \E n \in inflight :
          /\ \E kind \in CancelKinds(n.wasStarted) : onerror(n.id, kind)
          /\ inflight' = inflight \ {n}
    /\ UNCHANGED <<variant, eagerSpeaking, timers, utt, queue, started,
                   voices, hook, submitted, lastCall>>
    /\ UNCHANGED textVars

-----------------------------------------------------------------------------
(* initTTS and the voice catalog *)

\* what an added listener would give instead of the assigned property
HookAdded == hook + 1

\* synth.onvoiceschanged = () => {...}: an assignment, the property holds
\* one handler however often it is assigned
HookAfterInit == 1

initTTS ==
    /\ hook' = HookAfterInit
    /\ last' = [Did("initTTS") EXCEPT !.again = (hook > 0)]
    /\ UNCHANGED <<variant, eagerSpeaking, currentUtterance, isSpeaking,
                   timers, utt, queue, started, inflight, voices, submitted,
                   lastCall>>
    /\ UNCHANGED textVars

\* the platform loads or changes its voices
VoicesChanged ==
    /\ \E vs \in Catalogs \ {voices} : voices' = vs
    /\ last' = Did("voiceschanged")
    /\ UNCHANGED <<variant, eagerSpeaking, currentUtterance, isSpeaking,
                   timers, utt, queue, started, inflight, hook, submitted,
                   lastCall>>
    /\ UNCHANGED textVars

-----------------------------------------------------------------------------
(* The manager *)

Next ==
    \/ SpeakJapanese
    \/ stopSpeech
    \/ TimerFires
    \/ NotifyStart
    \/ NotifyEnd
    \/ NotifyError
    \/ NotifyCancelled
    \/ initTTS
    \/ VoicesChanged

Spec == Init /\ [][Next]_vars

\* the event loop runs every armed setTimeout callback
LiveSpec == Init /\ [][Next]_vars /\ WF_vars(TimerFires)

-----------------------------------------------------------------------------
(* The text functions on their own *)

RECURSIVE StringsOfLen(_)
StringsOfLen(n) ==
    IF n = 0 THEN {<<>>}
    ELSE {Append(s, c) : s \in StringsOfLen(n-1), c \in Alphabet}

Strings == UNION {StringsOfLen(n) : n \in 0..MaxLen}

Inputs == {JsNull} \cup {JsStr(s) : s \in Strings}

\* inputs of extractJapaneseOnly: markup, text, groups, line breaks
Segments ==
    { <<Lt, LetterB, LetterR, Gt>>,
      <<Lt, LetterB, LetterR, Space, Slash, Gt>>,
      <<Lt, LetterP, Gt>>,
      <<Newline>>,
      <<Space>>,
      <<Kana>>,
      <<Kanji>>,
      <<FullLParen, Kana, FullRParen>>,
      <<LParen, Kanji, RParen>> }

RECURSIVE Concats(_)
Concats(n) ==
    IF n = 0 THEN {<<>>}
    ELSE {s \o seg : s \in Concats(n-1), seg \in Segments}

ExtractInputs ==
    {JsNull} \cup {JsStr(s) : s \in UNION {Concats(n) : n \in 0..MaxSegs}}

TextInit ==
    /\ variant = "tts"
    /\ eagerSpeaking = FALSE
    /\ currentUtterance = Null
    /\ isSpeaking = FALSE
    /\ timers = <<>>
    /\ utt = <<>>
    /\ queue = <<>>
    /\ started = FALSE
    /\ inflight = {}
    /\ voices = <<>>
    /\ hook = 0
    /\ submitted = <<>>
    /\ lastCall = NoCall
    /\ last = NoOp
    /\ input \in Inputs \cup ExtractInputs
    /\ output = JsNull
    /\ pc = "call"

Clean ==
    /\ pc = "call"
    /\ output' = cleanJapaneseText(input)
    /\ pc' = "cleaned"
    /\ UNCHANGED input
    /\ UNCHANGED managerVars

\* cleanJapaneseText applied to its own result
Reclean ==
    /\ pc = "cleaned"
    /\ output' = cleanJapaneseText(output)
    /\ pc' = "recleaned"
    /\ UNCHANGED input
    /\ UNCHANGED managerVars

Extract ==
    /\ pc = "call"
    /\ output' = extractJapaneseOnly(input)
    /\ pc' = "extracted"
    /\ UNCHANGED input
    /\ UNCHANGED managerVars

TextNext ==
    \/ Clean
    \/ Reclean
    \/ Extract

TextSpec == TextInit /\ [][TextNext]_vars

-----------------------------------------------------------------------------
(* Claims *)

\* utterances handed to synth.speak and not yet resolved by an end or error
\* notification: those in the capability's queue and those cancelled whose
\* error notification has not been delivered
Outstanding ==
    {queue[i] : i \in 1..Len(queue)} \cup {n.id : n \in inflight}

\* C1: at most one utterance is outstanding at the speech capability at
\* any time, whatever the sequence of calls, timer firings and notifications.
C1_AtMostOneOutstanding ==
    Cardinality(Outstanding) <= 1

\* C2: when a second speakJapanese call is made before the first call's
\* settling delay has elapsed, the first call's delayed action never submits
\* an utterance; after both delays exactly one utterance has been handed to
\* synth.speak and it carries the second call's text.
C2_SupersededCallNeverSubmits ==
    /\ ~(last.op = "timer" /\ last.outcome = "ok" /\ timers # <<>>)
    /\ (lastCall.n = 2 /\ lastCall.rapid /\ timers = <<>>)
          => /\ Len(submitted) = 1
             /\ utt[submitted[1]].text = lastCall.text

\* C3: immediately after stopSpeech returns, isTTSSpeaking() is false and
\* currentUtterance is null, whatever the state it was called in.
C3_StopClearsState ==
    last.op = "stopSpeech" => (~isTTSSpeaking /\ currentUtterance = Null)

\* C3 witness: stopSpeech has returned after cancelling an utterance that
\* was being spoken, with a delayed action still pending.
C3_Witness ==
    /\ last.op = "stopSpeech"
    /\ last.cancel
    /\ timers # <<>>
    /\ \E n \in inflight : n.wasStarted

\* texts with nothing to speak: null, "", whitespace only, annotation only
BlankTexts ==
    { JsNull, JsStr(<<>>), JsStr(<<Space>>),
      JsStr(<<FullLParen, Kana, FullRParen>>) }

\* C4: a speakJapanese call whose text is empty after cleaning changes
\* nothing: flag and currentUtterance keep their values, no cancel is issued,
\* no delayed action is armed, a pending or playing utterance continues.
C4_EmptySpeakChangesNothing ==
    [][(last'.op = "speakJapanese" /\ last'.text \in BlankTexts)
          => /\ UNCHANGED <<currentUtterance, isSpeaking, timers, utt,
                            queue, started, inflight, submitted, lastCall>>
             /\ ~last'.cancel
             /\ ~last'.armed]_vars

\* C4 witness: a blank speakJapanese call has returned while an utterance
\* is playing and another delayed action is pending.
C4_Witness ==
    /\ last.op = "speakJapanese"
    /\ last.text \in BlankTexts
    /\ isSpeaking
    /\ started
    /\ currentUtterance # Null
    /\ timers # <<>>

\* C5: isTTSSpeaking() is true only when the capability has delivered the
\* start notification of the currently stored utterance and no end, error
\* or stopSpeech has occurred since; it is false between submission and start.
C5_FlagReflectsStartNotification ==
    isTTSSpeaking =>
        /\ currentUtterance # Null
        /\ queue # <<>>
        /\ Head(queue) = currentUtterance
        /\ started

\* C6: a start, end or error notification of an utterance that has been
\* superseded (a newer utterance is stored) leaves the speaking flag and
\* currentUtterance untouched.
C6_StaleNotificationIgnored ==
    [][(/\ last'.op \in {"start", "end", "error"}
        /\ currentUtterance # Null
        /\ last'.id < currentUtterance)
          => UNCHANGED <<isSpeaking, currentUtterance>>]_vars

\* C7: every error notification leaves the flag false and currentUtterance
\* null, emits no diagnostic for kind "interrupted" or "cancelled" and
\* exactly one diagnostic for every other kind.
C7_ErrorNotification ==
    last.op = "error" =>
        /\ ~isSpeaking
        /\ currentUtterance = Null
        /\ last.diag = IF last.kind \in {"interrupted", "cancelled"}
                       THEN 0 ELSE 1

\* C8: when building or submitting the utterance throws inside the delayed
\* action, the failure is caught, the manager ends Idle (flag false,
\* currentUtterance null), exactly one diagnostic is emitted, nothing
\* escapes and nothing is resubmitted.
C8_SubmissionFailureReducesToIdle ==
    [][(last'.op = "timer" /\ last'.outcome # "ok")
          => /\ ~isSpeaking'
             /\ currentUtterance' = Null
             /\ last'.diag = 1
             /\ ~last'.uncaught
             /\ timers' = Tail(timers)
             /\ UNCHANGED <<queue, submitted>>]_vars

\* the voice the policy asks for in catalog vs
PolicyVoice(vs) ==
    LET google == {i \in 1..Len(vs) : vs[i].lang = "ja-JP"
                                       /\ "Google" \in {vs[i].name[k] :
                                             k \in 1..Len(vs[i].name)}}
        ja == {i \in 1..Len(vs) : vs[i].lang = "ja-JP"}
    IN  IF google # {}
        THEN <<vs[CHOOSE i \in google : \A j \in google : i <= j]>>
        ELSE IF ja # {}
             THEN <<vs[CHOOSE i \in ja : \A j \in ja : i <= j]>>
             ELSE <<>>

\* C9: the voice of a submitted utterance is chosen from the catalog as it
\* is when the delayed action fires: the first ja-JP voice whose name
\* contains "Google", else the first ja-JP voice, else none.
C9_VoiceChosenAtSubmission ==
    (last.op = "timer" /\ last.outcome = "ok")
        => last.voice = PolicyVoice(voices)

\* C9 witness: an utterance was submitted with the Google ja-JP voice from
\* a catalog whose first ja-JP voice and whose first Google voice are others.
C9_Witness ==
    /\ last.op = "timer"
    /\ last.outcome = "ok"
    /\ voices = <<EnGoogle, JaKyoko, JaGoogle>>
    /\ last.voice = <<JaGoogle>>

\* s holds a parenthesized group: an opener with a closer after it
HasGroup(s) ==
    \E i, j \in 1..Len(s) : i < j /\ IsOpen(s[i]) /\ IsClose(s[j])

HasParen(s) ==
    \E i \in 1..Len(s) : IsOpen(s[i]) \/ IsClose(s[i])

\* C10: for every input that contains a parenthesized group of either
\* width, the result of cleanJapaneseText contains no parenthesis character,
\* nested groups, unmatched parentheses and pairs spanning a newline included.
C10_CleanTextHasNoParenthesis ==
    (pc = "cleaned" /\ input.tag = "string" /\ HasGroup(input.chars))
        => ~HasParen(output.chars)

\* C11: cleanJapaneseText is idempotent for every input string: applied to
\* its own result it returns that result.
C11_CleanIsIdempotent ==
    [][(pc = "cleaned" /\ pc' = "recleaned") => output' = output]_vars

\* C11 witness: the function has been applied twice to an input with a
\* group and a parenthesis that survives the first application.
C11_Witness ==
    /\ pc = "recleaned"
    /\ input.tag = "string"
    /\ HasGroup(input.chars)
    /\ HasParen(output.chars)
    /\ output.chars # input.chars

\* the lines of an input once line-break markup is newlines and the other
\* tags are gone
LinesOf(text) == Split(StripTags(BrToNewline(text.chars)))

\* C12: extractJapaneseOnly works on the first non-empty line of its input
\* (line-break markup turned into newlines, other tags stripped); only when
\* no line is non-empty does it fall back to cleanJapaneseText of the input.
C12_ExtractUsesFirstNonEmptyLine ==
    (pc = "extracted" /\ input.tag = "string" /\ input.chars # <<>>)
        => LET lines == LinesOf(input)
               nonEmpty == {i \in 1..Len(lines) : lines[i] # <<>>}
           IN  output = IF nonEmpty # {}
                        THEN FromLine(lines[Min(nonEmpty)])
                        ELSE cleanJapaneseText(input)

\* C13: the translation-stripping step removes exactly the one group that
\* ends the line: for a line with an earlier group, then text, then a
\* trailing group, the result is cleanJapaneseText of the line without its
\* last group.
C13_OnlyTrailingGroupStripped ==
    (pc = "extracted" /\ input.tag = "string" /\ input.chars # <<>>)
        => LET line == Trim(LinesOf(input)[1])
               openers == {i \in 1..Len(line) : IsOpen(line[i])}
           IN  (/\ line # <<>>
                /\ IsClose(line[Len(line)])
                /\ openers # {}
                /\ HasGroup(SubSeq(line, 1, Max(openers) - 1))
                /\ ~HasParen(<<line[Max(openers) - 1]>>))
                   => output = cleanJapaneseText(
                                  JsStr(SubSeq(line, 1, Max(openers) - 1)))

Idle == ~isSpeaking /\ currentUtterance = Null

\* C14: when the end notification of the current utterance is delivered,
\* the flag becomes false and currentUtterance null, and the manager is
\* Idle until the next speakJapanese call.
C14_EndLeadsToIdle ==
    [][/\ (last'.op = "end" /\ last'.current) => Idle'
       /\ (last.op = "end" /\ last.current /\ last'.op # "speakJapanese")
             => Idle']_vars

MinRate == 50
MaxRate == 200

\* C17: every utterance handed to the capability has a rate between 0.5
\* and 2.0 whatever the rate argument was, and 0.85 when it was omitted.
C17_RateInRange ==
    /\ \A i \in 1..Len(submitted) :
          /\ utt[submitted[i]].rate >= MinRate
          /\ utt[submitted[i]].rate <= MaxRate
    /\ (last.op = "speakJapanese" /\ last.armed /\ last.rate = <<>>)
          => timers[Len(timers)].rate = 85

\* C18: in tts.js, after a stopSpeech call that is followed by no further
\* speakJapanese call, no utterance is handed to synth.speak and
\* isTTSSpeaking() stays false, also when the stop came while a delayed
\* action was pending.
C18_NothingSubmittedAfterStop ==
    [][(variant = "tts" /\ last.op = "stopSpeech"
            /\ last'.op # "speakJapanese")
          => /\ submitted' = submitted
             /\ ~isTTSSpeaking']_vars

\* C19: after stopSpeech returns the capability holds no utterance that
\* can still start playing, also when the utterance was queued and had not
\* begun to be spoken.
C19_StopEmptiesCapability ==
    last.op = "stopSpeech" => queue = <<>>

\* C20: in tts.js, whenever the speaking flag is true the stored
\* currentUtterance is non-null.
C20_FlagImpliesUtterance ==
    (variant = "tts" /\ isSpeaking) => currentUtterance # Null

\* nothing pending, nothing playing, manager Idle
Settled == Idle /\ timers = <<>> /\ queue = <<>>

====
